---- MODULE Spec2Model ----
(***************************************************************************)
(* A model of UGenActorUtils (GenActorUtils.cpp): the editor utility       *)
(* functions that spawn actors, find actors, create and assign materials,  *)
(* set actor transforms and create a game-mode blueprint.                  *)
(*                                                                         *)
(* The host engine's object graph is the state: the editor world and its   *)
(* actors, the material packages and material objects, the blueprint       *)
(* assets and the level's default game mode.  Every function of the file   *)
(* is one action.  A host call whose result the code tests (a spawn, a     *)
(* package creation, a save, ...) is a nondeterministic input of the       *)
(* action; a host call whose result the code ignores takes effect.         *)
(*                                                                         *)
(* Representation.  A long package name "/A/B/C" is the sequence of its    *)
(* segments <<"A","B","C">>, the empty string is <<>>; an object path      *)
(* "/A/B/C.D" is the record [pkg |-> <<"A","B","C">>, obj |-> "D"].        *)
(* A pointer to an object (actor, mesh, material, class) is the object's   *)
(* name, a string, and the null pointer is the string NULL.                *)
(***************************************************************************)
EXTENDS Integers, Sequences, FiniteSets, TLC

VARIABLES
    hasWorld,        \* GEditor->GetEditorWorldContext().World() is non-null
    hasLevel,        \* World->GetCurrentLevel() is non-null
    actors,          \* the world's actors, in TActorIterator order
    packages,        \* the packages FindPackage finds
    materials,       \* the UMaterial objects
    registry,        \* materials announced to the asset registry
    blueprints,      \* the UBlueprint assets
    defaultGameMode, \* CurrentLevel->GetWorldSettings()->DefaultGameMode
    crashed,         \* the process dereferenced a null pointer
    call             \* the last call: its operation, arguments, result, log

vars == <<hasWorld, hasLevel, actors, packages, materials, registry,
          blueprints, defaultGameMode, crashed, call>>

hostVars == <<hasWorld, hasLevel, actors, packages, materials, registry,
              blueprints, defaultGameMode>>

NULL == "nullptr"

(***************************************************************************)
(* Bounds of the model.                                                    *)
(***************************************************************************)
MaxActors == 2

(***************************************************************************)
(* Host content: the assets and native classes the engine ships with.      *)
(***************************************************************************)
ObjPath(pkg, obj) == [pkg |-> pkg, obj |-> obj]

\* FString::IsEmpty on a path
IsEmpty(p) == p = <<>>

\* FPackageName::GetLongPackagePath: the path without its last segment
GetLongPackagePath(p) == SubSeq(p, 1, Len(p) - 1)

\* FPackageName::GetShortName: the last segment of the path
GetShortName(p) == p[Len(p)]

\* "/Engine/BasicShapes/%s.%s"
BasicShapeMeshPath(ShapeName) ==
    ObjPath(<<"Engine", "BasicShapes", ShapeName>>, ShapeName)

RECURSIVE PackageName(_)
\* the long package name as the string the engine sees: "/A/B/C"
PackageName(pkg) ==
    IF pkg = <<>> THEN "" ELSE "/" \o Head(pkg) \o PackageName(Tail(pkg))

\* the full object name "/A/B/C.D"
ObjectName(path) == PackageName(path.pkg) \o "." \o path.obj

\* the static meshes LoadObject<UStaticMesh> can load
StaticMeshes ==
    { ObjPath(<<"Engine", "BasicShapes", "Cube">>, "Cube"),
      ObjPath(<<"Game", "Meshes", "Rock">>, "Rock") }

\* LoadObject<UStaticMesh>(nullptr, Path): the mesh object, or NULL
LoadStaticMesh(path) == IF path \in StaticMeshes THEN ObjectName(path) ELSE NULL

\* UStaticMeshComponent::GetNumMaterials for a component holding the mesh
NumMaterialSlots(mesh) ==
    IF mesh = NULL THEN 0
    ELSE IF mesh = "/Game/Meshes/Rock.Rock" THEN 2 ELSE 1

NativeClasses ==
    {"Object", "Actor", "Pawn", "DefaultPawn", "StaticMeshActor",
     "GameModeBase", "GameMode"}

NativeParent(c) ==
    CASE c = "Actor" -> "Object"
      [] c = "Pawn" -> "Actor"
      [] c = "DefaultPawn" -> "Pawn"
      [] c = "StaticMeshActor" -> "Actor"
      [] c = "GameModeBase" -> "Actor"
      [] c = "GameMode" -> "GameModeBase"
      [] OTHER -> NULL

\* the name of a blueprint's generated class
GeneratedClassName(path) == GetShortName(path) \o "_C"

\* UBlueprint::GeneratedClass, NULL when the blueprint has none
GeneratedClass(bp) == IF bp.gen THEN GeneratedClassName(bp.path) ELSE NULL

BlueprintsAt(bps, path) == { b \in bps : b.path = path }

\* LoadObject<UBlueprint>(nullptr, Path) is non-null
BlueprintLoads(bps, path) == BlueprintsAt(bps, path) # {}

\* LoadObject<UBlueprint>(nullptr, Path), when it is non-null
LoadBlueprint(bps, path) ==
    CHOOSE b \in BlueprintsAt(bps, path) :
        \A o \in BlueprintsAt(bps, path) : b.id <= o.id

\* UClass::GetSuperClass over native and blueprint-generated classes
SuperClass(bps, c) ==
    IF c \in NativeClasses THEN NativeParent(c)
    ELSE IF \E b \in bps : GeneratedClass(b) = c
         THEN (CHOOSE b \in bps : GeneratedClass(b) = c).parent
         ELSE NULL

RECURSIVE IsChildOfFrom(_, _, _, _)
IsChildOfFrom(bps, c, base, fuel) ==
    IF c = NULL \/ fuel = 0 THEN FALSE
    ELSE IF c = base THEN TRUE
    ELSE IsChildOfFrom(bps, SuperClass(bps, c), base, fuel - 1)

\* UClass::IsChildOf
IsChildOf(bps, c, base) ==
    IsChildOfFrom(bps, c, base, Cardinality(NativeClasses) + Cardinality(bps) + 1)

\* FindObject<UClass>(ANY_PACKAGE, Name)
FindClass(bps, name) ==
    IF name \in NativeClasses THEN name
    ELSE IF \E b \in bps : GeneratedClass(b) = name THEN name
    ELSE NULL

\* FSoftClassPath(Path).TryLoadClass<AActor>()
TryLoadActorClass(bps, ref) ==
    IF \E b \in bps : /\ b.path = ref.pkg
                      /\ GeneratedClass(b) = ref.obj
                      /\ IsChildOf(bps, ref.obj, "Actor")
    THEN ref.obj
    ELSE NULL

\* a class name or class path as the caller writes it: slash is
\* ActorClassName.StartsWith("/")
ClassByName(name) == [slash |-> FALSE, pkg |-> <<>>, obj |-> name]

ClassByPath(pkg, obj) == [slash |-> TRUE, pkg |-> pkg, obj |-> obj]

(***************************************************************************)
(* The world's actors.                                                     *)
(***************************************************************************)
ActorIndices(as) == 1..Len(as)

\* the name the host gives the next spawned actor (its path within the world)
NewActorName(as, class) == class \o "_" \o ToString(Len(as))

\* the label GetActorLabel returns for an actor no label was set on
DefaultActorLabel(name) == name

\* UWorld::SpawnActor(Class, Location, Rotation): the actor as the host makes it
NewActor(as, class, Location, Rotation, comp) ==
    [ name  |-> NewActorName(as, class),
      label |-> DefaultActorLabel(NewActorName(as, class)),
      class |-> class,
      loc   |-> Location,
      rot   |-> Rotation,
      scale |-> <<1, 1, 1>>,
      comp  |-> comp,
      mesh  |-> NULL,
      mats  |-> <<>> ]

\* UStaticMeshComponent::SetStaticMesh
SetStaticMesh(a, mesh) ==
    [a EXCEPT !.mesh = mesh,
              !.mats = [i \in 1..NumMaterialSlots(mesh) |-> NULL]]

SetActorScale3D(a, Scale) == [a EXCEPT !.scale = Scale]

SetActorLocation(a, Location) == [a EXCEPT !.loc = Location]

SetRotation(a, Rotation) == [a EXCEPT !.rot = Rotation]

SetActorLabel(a, Label) == [a EXCEPT !.label = Label]

\* AActor::Destroy: the actor leaves the world
DestroyActor(as, name) == SelectSeq(as, LAMBDA a : a.name # name)

\* ApplyLabel without the IsEmpty test: the label is set even when it is empty
ApplyLabelAlways(a, ActorLabel) == SetActorLabel(a, ActorLabel)

\* the label step shared by the three spawn functions
ApplyLabel(a, ActorLabel) ==
    IF ActorLabel # "" THEN SetActorLabel(a, ActorLabel) ELSE a

\* UE_LOG(LogTemp, Error | Warning | Log, ...): one line of the call's log
LogLine(level, text) == <<[level |-> level, text |-> text]>>

Error(text) == LogLine("Error", text)

Warning(text) == LogLine("Warning", text)

Info(text) == LogLine("Log", text)

Call(op, args, ret, log) == [op |-> op, args |-> args, ret |-> ret, log |-> log]

SpawnArgs(what, Location, Rotation, Scale, ActorLabel) ==
    [what |-> what, Location |-> Location, Rotation |-> Rotation,
     Scale |-> Scale, ActorLabel |-> ActorLabel]

Returns(c) == call' = c /\ crashed' = crashed

\* the call logs and returns without having changed the host
ReturnsOnly(op, args, ret, log) ==
    /\ Returns(Call(op, args, ret, log))
    /\ UNCHANGED hostVars

UnchangedButActors ==
    UNCHANGED <<hasWorld, hasLevel, packages, materials, registry,
                blueprints, defaultGameMode>>

(***************************************************************************)
(* SpawnBasicShape.  spawnOk: World->SpawnActor returned an actor;         *)
(* comp: the spawned actor has a static mesh component.  The code calls    *)
(* GetStaticMeshComponent()->SetStaticMesh without testing the component:  *)
(* without one the call dereferences a null pointer.                       *)
(***************************************************************************)
SpawnBasicShape(ShapeName, Location, Rotation, Scale, ActorLabel, spawnOk, comp) ==
    LET op   == "SpawnBasicShape"
        args == SpawnArgs(ShapeName, Location, Rotation, Scale, ActorLabel)
        Mesh == LoadStaticMesh(BasicShapeMeshPath(ShapeName))
        Actor == NewActor(actors, "StaticMeshActor", Location, Rotation, comp)
    IN  /\ ~crashed
        /\ Len(actors) < MaxActors
        /\ IF ~hasWorld
             THEN ReturnsOnly(op, args, NULL, Error("Failed to get editor world"))
           ELSE IF ~spawnOk
             THEN ReturnsOnly(op, args, NULL, Error("Failed to spawn StaticMeshActor"))
           ELSE IF Mesh = NULL
             THEN /\ actors' = DestroyActor(Append(actors, Actor), Actor.name)
                  /\ Returns(Call(op, args, NULL,
                                  Error("Failed to load static mesh at path")))
                  /\ UnchangedButActors
           ELSE IF ~comp
             THEN /\ actors' = Append(actors, Actor)
                  /\ crashed' = TRUE
                  /\ call' = Call("crash", args, NULL, <<>>)
                  /\ UnchangedButActors
           ELSE /\ actors' = Append(actors,
                        ApplyLabel(SetActorScale3D(SetStaticMesh(Actor, Mesh), Scale),
                                   ActorLabel))
                /\ Returns(Call(op, args, Actor.name, <<>>))
                /\ UnchangedButActors

(***************************************************************************)
(* SpawnStaticMeshActor.                                                   *)
(***************************************************************************)
SpawnStaticMeshActor(MeshPath, Location, Rotation, Scale, ActorLabel, spawnOk, comp) ==
    LET op   == "SpawnStaticMeshActor"
        args == SpawnArgs(MeshPath, Location, Rotation, Scale, ActorLabel)
        Mesh == LoadStaticMesh(MeshPath)
        Actor == NewActor(actors, "StaticMeshActor", Location, Rotation, comp)
    IN  /\ ~crashed
        /\ Len(actors) < MaxActors
        /\ IF Mesh = NULL
             THEN ReturnsOnly(op, args, NULL, Error("Could not load static mesh from"))
           ELSE IF ~hasWorld
             THEN ReturnsOnly(op, args, NULL, Error("Failed to get editor world"))
           ELSE IF ~spawnOk
             THEN ReturnsOnly(op, args, NULL, Error("Failed to spawn StaticMeshActor"))
           ELSE IF ~comp
             THEN /\ actors' = DestroyActor(Append(actors, Actor), Actor.name)
                  /\ Returns(Call(op, args, NULL,
                         Error("No StaticMeshComponent found on spawned actor")))
                  /\ UnchangedButActors
           ELSE /\ actors' = Append(actors,
                        ApplyLabel(SetActorScale3D(SetStaticMesh(Actor, Mesh), Scale),
                                   ActorLabel))
                /\ Returns(Call(op, args, Actor.name,
                                Info("Spawned StaticMeshActor with mesh")))
                /\ UnchangedButActors

(***************************************************************************)
(* SpawnActorFromClass.  UWorld::SpawnActor refuses a class that is not an *)
(* actor class; spawnOk is any other refusal of the host.                  *)
(***************************************************************************)
SpawnActorFromClass(ActorClassName, Location, Rotation, Scale, ActorLabel, spawnOk) ==
    LET op   == "SpawnActorFromClass"
        args == SpawnArgs(ActorClassName, Location, Rotation, Scale, ActorLabel)
        ActorClass == IF ActorClassName.slash
                        THEN TryLoadActorClass(blueprints, ActorClassName)
                        ELSE FindClass(blueprints, ActorClassName.obj)
        Actor == NewActor(actors, ActorClass, Location, Rotation,
                          IsChildOf(blueprints, ActorClass, "StaticMeshActor"))
    IN  /\ ~crashed
        /\ Len(actors) < MaxActors
        /\ IF ~ActorClassName.slash /\ ActorClass = NULL
             THEN ReturnsOnly(op, args, NULL, Error("Could not find actor class"))
           ELSE IF ActorClass = NULL
             THEN ReturnsOnly(op, args, NULL, Error("Could not load actor class from"))
           ELSE IF ~hasWorld
             THEN ReturnsOnly(op, args, NULL, Error("Failed to get editor world"))
           ELSE IF ~spawnOk \/ ~IsChildOf(blueprints, ActorClass, "Actor")
             THEN ReturnsOnly(op, args, NULL, Error("Failed to spawn actor of class"))
           ELSE /\ actors' = Append(actors,
                        ApplyLabel(SetActorScale3D(Actor, Scale), ActorLabel))
                /\ Returns(Call(op, args, Actor.name, <<>>))
                /\ UnchangedButActors

(***************************************************************************)
(* FindActorByName.                                                        *)
(***************************************************************************)
LabelMatches(as, ActorName) == { i \in ActorIndices(as) : as[i].label = ActorName }

\* the TActorIterator loop: the index of the first actor with the label, or 0
FirstByLabel(as, ActorName) ==
    IF LabelMatches(as, ActorName) = {} THEN 0
    ELSE CHOOSE i \in LabelMatches(as, ActorName) :
            \A j \in LabelMatches(as, ActorName) : i <= j

\* FindObject<AActor>(World, Name): the index of the actor with the path, or 0
FindObjectInWorld(as, ActorName) ==
    IF \E i \in ActorIndices(as) : as[i].name = ActorName
    THEN CHOOSE i \in ActorIndices(as) : as[i].name = ActorName
    ELSE 0

\* FindActorIndex with the two lookups in the other order: path first
FindActorIndexPathFirst(world, as, ActorName) ==
    IF ~world THEN 0
    ELSE IF FindObjectInWorld(as, ActorName) # 0 THEN FindObjectInWorld(as, ActorName)
    ELSE FirstByLabel(as, ActorName)

\* the index FindActorByName resolves to (0: nullptr) and what it logs
FindActorIndex(world, as, ActorName) ==
    IF ~world THEN 0
    ELSE IF FirstByLabel(as, ActorName) # 0 THEN FirstByLabel(as, ActorName)
    ELSE FindObjectInWorld(as, ActorName)

FindActorLog(world, as, ActorName) ==
    IF ~world THEN Error("Failed to get editor world")
    ELSE IF FindActorIndex(world, as, ActorName) = 0
         THEN Warning("Actor not found in the level")
         ELSE <<>>

ActorRef(as, i) == IF i = 0 THEN NULL ELSE as[i].name

FindActorByName(ActorName) ==
    /\ ~crashed
    /\ Returns(Call("FindActorByName", [ActorName |-> ActorName],
                    ActorRef(actors, FindActorIndex(hasWorld, actors, ActorName)),
                    FindActorLog(hasWorld, actors, ActorName)))
    /\ UNCHANGED hostVars

(***************************************************************************)
(* CreateMaterial.  pkgOk: CreatePackage returned a package; objOk:        *)
(* NewObject returned a material; exprOk: CreateMaterialExpression         *)
(* returned a Constant3Vector; connOk: ConnectMaterialProperty succeeded;  *)
(* saveOk: UPackage::SavePackage succeeded.                                *)
(***************************************************************************)
\* PackagePath + "/" + MaterialName
MaterialPackagePath(MaterialName) == <<"Game", "Materials">> \o <<MaterialName>>

MaterialsAt(ms, path) == { m \in ms : m.pkg = path.pkg /\ m.name = path.obj }

\* LoadObject<UMaterial>(nullptr, Path): the material's id, or NULL
LoadMaterial(ms, path) ==
    IF MaterialsAt(ms, path) = {} THEN NULL
    ELSE (CHOOSE m \in MaterialsAt(ms, path) :
             \A o \in MaterialsAt(ms, path) : m.n <= o.n).id

\* lines 223-232: the material the existing package yields, or NULL
ExistingMaterial(pkgs, ms, MaterialName) ==
    IF MaterialPackagePath(MaterialName) \in pkgs
    THEN LoadMaterial(ms, ObjPath(MaterialPackagePath(MaterialName), MaterialName))
    ELSE NULL

\* NewObject<UMaterial>(Package, MaterialName) with the color expression
NewMaterial(ms, MaterialName, Color, exprOk, connOk, saveOk) ==
    [ id        |-> "Material_" \o ToString(Cardinality(ms)),
      n         |-> Cardinality(ms),
      name      |-> MaterialName,
      pkg       |-> MaterialPackagePath(MaterialName),
      color     |-> IF exprOk THEN Color ELSE NULL,
      connected |-> exprOk /\ connOk,
      saved     |-> saveOk ]

CreateMaterial(MaterialName, Color, pkgOk, objOk, exprOk, connOk, saveOk) ==
    LET op   == "CreateMaterial"
        args == [MaterialName |-> MaterialName, Color |-> Color]
        FullPackagePath == MaterialPackagePath(MaterialName)
        Existing == ExistingMaterial(packages, materials, MaterialName)
        warn == IF FullPackagePath \in packages
                  THEN Warning("Material already exists, trying to load it")
                  ELSE <<>>
        Material == NewMaterial(materials, MaterialName, Color, exprOk, connOk, saveOk)
    IN  /\ ~crashed
        /\ IF Existing # NULL
             THEN ReturnsOnly(op, args, Existing, warn)
           ELSE IF ~pkgOk
             THEN ReturnsOnly(op, args, NULL,
                        warn \o Error("Failed to create package for material"))
           ELSE IF ~objOk
             THEN /\ packages' = packages \cup {FullPackagePath}
                  /\ Returns(Call(op, args, NULL,
                                  warn \o Error("Failed to create material")))
                  /\ UNCHANGED <<hasWorld, hasLevel, actors, materials, registry,
                                 blueprints, defaultGameMode>>
           ELSE /\ packages' = packages \cup {FullPackagePath}
                /\ materials' = materials \cup {Material}
                /\ registry' = IF saveOk THEN registry \cup {Material.id} ELSE registry
                /\ Returns(Call(op, args, Material.id,
                       warn
                       \o (IF exprOk /\ ~connOk
                             THEN Error("Failed to connect material property")
                             ELSE <<>>)
                       \o (IF saveOk
                             THEN Info("Successfully created and saved material")
                             ELSE Error("Failed to save material"))))
                /\ UNCHANGED <<hasWorld, hasLevel, actors, blueprints,
                               defaultGameMode>>

(***************************************************************************)
(* SetActorMaterial and SetActorMaterialByPath.                            *)
(***************************************************************************)
\* SetAllMaterials that stops after slot 0
SetFirstMaterial(a, Material) ==
    [a EXCEPT !.mats = [i \in 1..Len(a.mats) |-> IF i = 1 THEN Material ELSE a.mats[i]]]

\* the loop over GetNumMaterials(): SetMaterial(i, Material) on every slot
SetAllMaterials(a, Material) ==
    [a EXCEPT !.mats = [i \in 1..Len(a.mats) |-> Material]]

\* lines 318-346, shared by the two entry points
ApplyMaterial(op, args, ActorName, Material, log) ==
    LET i == FindActorIndex(hasWorld, actors, ActorName)
    IN  IF Material = NULL
          THEN ReturnsOnly(op, args, FALSE, log \o Error("Null material provided"))
        ELSE IF i = 0
          THEN ReturnsOnly(op, args, FALSE, log \o FindActorLog(hasWorld, actors, ActorName))
        ELSE IF ~actors[i].comp
          THEN ReturnsOnly(op, args, FALSE,
                     log \o Error("No static mesh component found on actor"))
        ELSE /\ actors' = [actors EXCEPT ![i] = SetAllMaterials(@, Material)]
             /\ Returns(Call(op, args, TRUE, log \o Info("Set material for actor")))
             /\ UnchangedButActors

SetActorMaterial(ActorName, Material) ==
    /\ ~crashed
    /\ ApplyMaterial("SetActorMaterial",
                     [ActorName |-> ActorName, Material |-> Material],
                     ActorName, Material, <<>>)

SetActorMaterialByPath(ActorName, MaterialPath) ==
    LET op   == "SetActorMaterialByPath"
        args == [ActorName |-> ActorName, MaterialPath |-> MaterialPath]
        Material == LoadMaterial(materials, MaterialPath)
    IN  /\ ~crashed
        /\ IF Material = NULL
             THEN ReturnsOnly(op, args, FALSE, Error("Failed to load material at path"))
             ELSE ApplyMaterial(op, args, ActorName, Material, <<>>)

(***************************************************************************)
(* SetActorPosition, SetActorRotation, SetActorScale.                      *)
(***************************************************************************)
\* SetActorPosition with the setter of its copy SetActorScale
SetActorPositionAsScale(ActorName, Position) ==
    LET op   == "SetActorPosition"
        args == [ActorName |-> ActorName, Value |-> Position]
        i    == FindActorIndex(hasWorld, actors, ActorName)
    IN  /\ ~crashed
        /\ IF i = 0
             THEN ReturnsOnly(op, args, FALSE, FindActorLog(hasWorld, actors, ActorName))
             ELSE /\ actors' = [actors EXCEPT ![i] = SetActorScale3D(@, Position)]
                  /\ Returns(Call(op, args, TRUE, Info("Set position of actor")))
                  /\ UnchangedButActors

SetActorPosition(ActorName, Position) ==
    LET op   == "SetActorPosition"
        args == [ActorName |-> ActorName, Value |-> Position]
        i    == FindActorIndex(hasWorld, actors, ActorName)
    IN  /\ ~crashed
        /\ IF i = 0
             THEN ReturnsOnly(op, args, FALSE, FindActorLog(hasWorld, actors, ActorName))
             ELSE /\ actors' = [actors EXCEPT ![i] = SetActorLocation(@, Position)]
                  /\ Returns(Call(op, args, TRUE, Info("Set position of actor")))
                  /\ UnchangedButActors

SetActorRotation(ActorName, Rotation) ==
    LET op   == "SetActorRotation"
        args == [ActorName |-> ActorName, Value |-> Rotation]
        i    == FindActorIndex(hasWorld, actors, ActorName)
    IN  /\ ~crashed
        /\ IF i = 0
             THEN ReturnsOnly(op, args, FALSE, FindActorLog(hasWorld, actors, ActorName))
             ELSE /\ actors' = [actors EXCEPT ![i] = SetRotation(@, Rotation)]
                  /\ Returns(Call(op, args, TRUE, Info("Set rotation of actor")))
                  /\ UnchangedButActors

SetActorScale(ActorName, Scale) ==
    LET op   == "SetActorScale"
        args == [ActorName |-> ActorName, Value |-> Scale]
        i    == FindActorIndex(hasWorld, actors, ActorName)
    IN  /\ ~crashed
        /\ IF i = 0
             THEN ReturnsOnly(op, args, FALSE, FindActorLog(hasWorld, actors, ActorName))
             ELSE /\ actors' = [actors EXCEPT ![i] = SetActorScale3D(@, Scale)]
                  /\ Returns(Call(op, args, TRUE, Info("Set scale of actor")))
                  /\ UnchangedButActors

(***************************************************************************)
(* CreateGameModeWithPawn.  assetOk: AssetTools.CreateAsset returned a     *)
(* blueprint; genOk: the new blueprint has a GeneratedClass; cdoOk: the    *)
(* generated class's ClassDefaultObject casts to AGameModeBase.            *)
(***************************************************************************)
Json(success, text) == [success |-> success, text |-> text]

\* AssetTools.CreateAsset(AssetName, PackageName, UBlueprint, Factory)
NewBlueprint(bps, AssetName, PackagePath, ParentClass, genOk) ==
    [ id          |-> Cardinality(bps),
      path        |-> PackagePath \o <<AssetName>>,
      parent      |-> ParentClass,
      gen         |-> genOk,
      defaultPawn |-> "DefaultPawn" ]

\* GameModeExists that looks the folder up instead of the asset
GameModeExistsInFolder(bps, GameModePath) ==
    BlueprintLoads(bps, GetLongPackagePath(GameModePath))

\* lines 418-422: a blueprint already loads from GameModePath
GameModeExists(bps, GameModePath) == BlueprintLoads(bps, GameModePath)

\* lines 434-435: the pawn blueprint loads, has a class, and it is a pawn class
ValidPawnBlueprint(bps, PawnBlueprintPath) ==
    /\ BlueprintLoads(bps, PawnBlueprintPath)
    /\ GeneratedClass(LoadBlueprint(bps, PawnBlueprintPath)) # NULL
    /\ IsChildOf(bps, GeneratedClass(LoadBlueprint(bps, PawnBlueprintPath)), "Pawn")

\* GameModeBaseClass without the default for an empty BaseClassName
GameModeBaseClassNoDefault(bps, BaseClassName) ==
    IF FindClass(bps, BaseClassName) = NULL
       \/ ~IsChildOf(bps, FindClass(bps, BaseClassName), "GameModeBase")
      THEN NULL ELSE FindClass(bps, BaseClassName)

\* lines 425-427: the base class, or NULL when it is not a game-mode class
GameModeBaseClass(bps, BaseClassName) ==
    LET BaseClassToUse == IF BaseClassName = "" THEN "GameModeBase" ELSE BaseClassName
        BaseClass == FindClass(bps, BaseClassToUse)
    IN  IF BaseClass = NULL \/ ~IsChildOf(bps, BaseClass, "GameModeBase")
          THEN NULL ELSE BaseClass

CreateGameModeWithPawn(GameModePath, PawnBlueprintPath, BaseClassName, assetOk, genOk, cdoOk) ==
    LET op   == "CreateGameModeWithPawn"
        args == [GameModePath |-> GameModePath,
                 PawnBlueprintPath |-> PawnBlueprintPath,
                 BaseClassName |-> BaseClassName]
        BaseClass == GameModeBaseClass(blueprints, BaseClassName)
        PawnBP == LoadBlueprint(blueprints, PawnBlueprintPath)
        GameModeBP == NewBlueprint(blueprints, GetShortName(GameModePath),
                                   GetLongPackagePath(GameModePath), BaseClass, genOk)
        GameModeClass == GeneratedClass(GameModeBP)
        WithPawn == IF cdoOk
                      THEN [GameModeBP EXCEPT !.defaultPawn = GeneratedClass(PawnBP)]
                      ELSE GameModeBP
    IN  /\ ~crashed
        /\ IF IsEmpty(GameModePath) \/ IsEmpty(PawnBlueprintPath)
             THEN ReturnsOnly(op, args, Json(FALSE, "Empty path provided"),
                        Error("GameModePath or PawnBlueprintPath is empty"))
           ELSE IF GameModeExists(blueprints, GameModePath)
             THEN ReturnsOnly(op, args, Json(FALSE, "Game mode already exists"),
                        Warning("Game mode already exists"))
           ELSE IF BaseClass = NULL
             THEN ReturnsOnly(op, args, Json(FALSE, "Invalid base class"),
                        Error("Invalid base class for game mode"))
           ELSE IF ~ValidPawnBlueprint(blueprints, PawnBlueprintPath)
             THEN ReturnsOnly(op, args, Json(FALSE, "Invalid pawn blueprint"),
                        Error("Invalid pawn blueprint"))
           ELSE IF ~assetOk
             THEN ReturnsOnly(op, args, Json(FALSE, "Failed to create game mode"),
                        Error("Failed to create game mode blueprint"))
           ELSE IF GameModeClass = NULL
             THEN /\ blueprints' = blueprints \cup {GameModeBP}
                  /\ Returns(Call(op, args, Json(FALSE, "No generated class"),
                                  Error("Generated class not found")))
                  /\ UNCHANGED <<hasWorld, hasLevel, actors, packages, materials,
                                 registry, defaultGameMode>>
           ELSE /\ blueprints' = blueprints \cup {WithPawn}
                /\ defaultGameMode' = IF hasWorld /\ hasLevel THEN GameModeClass
                                      ELSE defaultGameMode
                /\ Returns(Call(op, args,
                       Json(TRUE, "Created game mode with pawn and set as scene default"),
                       (IF ~hasWorld
                          THEN Warning("No current world found to set game mode")
                        ELSE IF ~hasLevel
                          THEN Warning("No current level found to set game mode")
                        ELSE Info("Set as default game mode for current scene"))
                       \o Info("Created game mode with pawn and set as scene default")))
                /\ UNCHANGED <<hasWorld, hasLevel, actors, packages, materials,
                               registry>>

(***************************************************************************)
(* The initial state: an editor session with or without an open world, a   *)
(* project that holds the engine's basic-shape material, one material of   *)
(* its own and three blueprints (a pawn, a prop, and a pawn blueprint that *)
(* never compiled).                                                        *)
(***************************************************************************)
EngineMaterialPath ==
    ObjPath(<<"Engine", "BasicShapes", "BasicShapeMaterial">>, "BasicShapeMaterial")

InitMaterials ==
    { [ id |-> "Material_0", n |-> 0, name |-> EngineMaterialPath.obj,
        pkg |-> EngineMaterialPath.pkg, color |-> "White",
        connected |-> TRUE, saved |-> TRUE ],
      [ id |-> "Material_1", n |-> 1, name |-> "M_Base",
        pkg |-> MaterialPackagePath("M_Base"), color |-> "Grey",
        connected |-> TRUE, saved |-> TRUE ] }

InitBlueprints ==
    { [id |-> 0, path |-> <<"Game", "BP_Pawn">>, parent |-> "Pawn",
       gen |-> TRUE, defaultPawn |-> NULL],
      [id |-> 1, path |-> <<"Game", "BP_Prop">>, parent |-> "StaticMeshActor",
       gen |-> TRUE, defaultPawn |-> NULL],
      [id |-> 2, path |-> <<"Game", "BP_Broken">>, parent |-> "Pawn",
       gen |-> FALSE, defaultPawn |-> NULL] }

Init ==
    /\ hasWorld \in BOOLEAN
    /\ hasLevel \in BOOLEAN
    /\ hasLevel => hasWorld
    /\ actors = <<>>
    /\ packages = {EngineMaterialPath.pkg, MaterialPackagePath("M_Base")}
    /\ materials = InitMaterials
    /\ registry = {"Material_0", "Material_1"}
    /\ blueprints = InitBlueprints
    /\ defaultGameMode = NULL
    /\ crashed = FALSE
    /\ call = Call("none", [none |-> TRUE], NULL, <<>>)

(***************************************************************************)
(* The callers' inputs.                                                    *)
(***************************************************************************)
Placement(Location, Rotation, Scale) ==
    [Location |-> Location, Rotation |-> Rotation, Scale |-> Scale]

DefaultPlacement == Placement(<<0, 0, 0>>, <<0, 0, 0>>, <<1, 1, 1>>)

Placements == {DefaultPlacement, Placement(<<100, 0, 50>>, <<0, 90, 0>>, <<2, 2, 3>>)}

Locations == {<<0, 0, 0>>, <<100, 0, 50>>}

Rotations == {<<0, 0, 0>>, <<0, 90, 0>>}

Scales == {<<1, 1, 1>>, <<2, 2, 3>>}

ShapeNames == {"Cube", "Torus"}

RockMeshPath == ObjPath(<<"Game", "Meshes", "Rock">>, "Rock")

MeshPaths == {RockMeshPath, ObjPath(<<"Game", "Meshes", "Gone">>, "Gone")}

ActorClassNames ==
    { ClassByName("Pawn"), ClassByName("Object"), ClassByName("Bogus"),
      ClassByPath(<<"Game", "BP_Prop">>, "BP_Prop_C"),
      ClassByPath(<<"Game", "Missing">>, "Missing_C") }

MaterialNames == {"M_Base", "M_Paint", "M_Glow"}

Colors == {"Red", "Blue"}

MaterialPaths ==
    { EngineMaterialPath,
      ObjPath(MaterialPackagePath("M_Base"), "M_Base"),
      ObjPath(MaterialPackagePath("M_Gone"), "M_Gone") }

MaterialRefs == {NULL, "Material_0", "Material_1"}

GameModePaths == {<<>>, <<"Game", "GM_Arena">>, <<"Game", "Modes", "GM_Race">>}

PawnBlueprintPaths == {<<>>, <<"Game", "BP_Pawn">>, <<"Game", "BP_Prop">>,
                       <<"Game", "BP_Broken">>, <<"Game", "BP_Gone">>}

BaseClassNames == {"", "GameMode", "Pawn", "Bogus"}

(***************************************************************************)
(* The steps: one call of one function with inputs from the given sets.    *)
(***************************************************************************)
BasicShapeStep(labels, placements, shapes) ==
    \E ShapeName \in shapes, p \in placements, ActorLabel \in labels,
       spawnOk \in BOOLEAN, comp \in BOOLEAN :
        SpawnBasicShape(ShapeName, p.Location, p.Rotation, p.Scale, ActorLabel,
                        spawnOk, comp)

StaticMeshStep(labels, placements, meshes) ==
    \E MeshPath \in meshes, p \in placements, ActorLabel \in labels,
       spawnOk \in BOOLEAN, comp \in BOOLEAN :
        SpawnStaticMeshActor(MeshPath, p.Location, p.Rotation, p.Scale, ActorLabel,
                             spawnOk, comp)

ClassStep(labels, placements, classes) ==
    \E ActorClassName \in classes, p \in placements, ActorLabel \in labels,
       spawnOk \in BOOLEAN :
        SpawnActorFromClass(ActorClassName, p.Location, p.Rotation, p.Scale,
                            ActorLabel, spawnOk)

FindStep(names) == \E ActorName \in names : FindActorByName(ActorName)

TransformStep(names) ==
    \E ActorName \in names :
        \/ \E Position \in Locations : SetActorPosition(ActorName, Position)
        \/ \E Rotation \in Rotations : SetActorRotation(ActorName, Rotation)
        \/ \E Scale \in Scales : SetActorScale(ActorName, Scale)

MaterialStep(names) ==
    \E ActorName \in names :
        \/ \E Material \in MaterialRefs : SetActorMaterial(ActorName, Material)
        \/ \E MaterialPath \in MaterialPaths :
              SetActorMaterialByPath(ActorName, MaterialPath)

CreateMaterialStep(names) ==
    \* a host call is made, and can fail, only when the calls before it succeeded
    \E MaterialName \in names, Color \in Colors, pkgOk \in BOOLEAN :
      \E objOk \in IF pkgOk THEN BOOLEAN ELSE {TRUE} :
        \E exprOk \in IF pkgOk /\ objOk THEN BOOLEAN ELSE {TRUE},
           saveOk \in IF pkgOk /\ objOk THEN BOOLEAN ELSE {TRUE} :
          \E connOk \in IF pkgOk /\ objOk /\ exprOk THEN BOOLEAN ELSE {TRUE} :
            CreateMaterial(MaterialName, Color, pkgOk, objOk, exprOk, connOk, saveOk)

CreateGameModeStep(paths, pawns, bases) ==
    \* a host call is made, and can fail, only when the calls before it succeeded
    \E GameModePath \in paths, PawnBlueprintPath \in pawns, BaseClassName \in bases,
       assetOk \in BOOLEAN :
      \E genOk \in IF assetOk THEN BOOLEAN ELSE {TRUE} :
        \E cdoOk \in IF assetOk /\ genOk THEN BOOLEAN ELSE {TRUE} :
          CreateGameModeWithPawn(GameModePath, PawnBlueprintPath, BaseClassName,
                                 assetOk, genOk, cdoOk)

(***************************************************************************)
(* Specifications.  Each runs the functions a group of properties is about *)
(* together with the spawn calls that build the world they act on.         *)
(***************************************************************************)
NextSpawn ==
    \/ BasicShapeStep({"", "Cube"}, Placements, ShapeNames)
    \/ StaticMeshStep({"", "Cube"}, Placements, MeshPaths)
    \/ ClassStep({"", "Cube"}, Placements, ActorClassNames)

SpecSpawn == Init /\ [][NextSpawn]_vars

NextFind ==
    \/ BasicShapeStep({"", "Cube", "StaticMeshActor_0"}, {DefaultPlacement}, {"Cube"})
    \/ FindStep({"Cube", "StaticMeshActor_0", "StaticMeshActor_1", "Nobody"})

SpecFind == Init /\ [][NextFind]_vars

NextTransform ==
    \/ ClassStep({"", "Cube"}, {DefaultPlacement}, {ClassByName("Pawn")})
    \/ TransformStep({"Cube", "Pawn_1", "Nobody"})

SpecTransform == Init /\ [][NextTransform]_vars

NextMaterial ==
    \/ StaticMeshStep({"", "Cube"}, {DefaultPlacement}, {RockMeshPath})
    \/ ClassStep({"", "Cube"}, {DefaultPlacement}, {ClassByName("Pawn")})
    \/ MaterialStep({"Cube", "StaticMeshActor_1", "Nobody"})

SpecMaterial == Init /\ [][NextMaterial]_vars

NextCreateMaterial == CreateMaterialStep(MaterialNames)

SpecCreateMaterial == Init /\ [][NextCreateMaterial]_vars

NextGameMode == CreateGameModeStep(GameModePaths, PawnBlueprintPaths, BaseClassNames)

SpecGameMode == Init /\ [][NextGameMode]_vars

\* every function, on a world of labelled cubes and pawns
Next ==
    \/ BasicShapeStep({"Cube"}, {DefaultPlacement}, {"Cube", "Torus"})
    \/ StaticMeshStep({"Cube"}, {DefaultPlacement}, {RockMeshPath})
    \/ ClassStep({"Cube"}, {DefaultPlacement}, {ClassByName("Pawn")})
    \/ FindStep({"Cube"})
    \/ TransformStep({"Cube"})
    \/ MaterialStep({"Cube"})
    \/ CreateMaterialStep({"M_Paint"})
    \/ CreateGameModeStep({<<"Game", "GM_Arena">>}, {<<"Game", "BP_Pawn">>}, {""})

Spec == Init /\ [][Next]_vars

(***************************************************************************)
(* Properties.                                                             *)
(***************************************************************************)
SpawnOps == {"SpawnBasicShape", "SpawnStaticMeshActor", "SpawnActorFromClass"}

PointerOps == SpawnOps \cup {"FindActorByName", "CreateMaterial"}

TransformOps == {"SetActorPosition", "SetActorRotation", "SetActorScale"}

BoolOps == TransformOps \cup {"SetActorMaterial", "SetActorMaterialByPath"}

GameModeOp == "CreateGameModeWithPawn"

\* the call returned its failure sentinel: nullptr, false or "success": false
ReturnsFailure(c) ==
    CASE c.op \in PointerOps -> c.ret = NULL
      [] c.op \in BoolOps -> c.ret = FALSE
      [] c.op = GameModeOp -> ~c.ret.success
      [] OTHER -> FALSE

\* the call logged an error: one of its steps failed
LoggedError(c) == \E i \in 1..Len(c.log) : c.log[i].level = "Error"

MaterialById(ms, id) == CHOOSE m \in ms : m.id = id

\* C1: a call one of whose steps failed returns its failure sentinel: a call
\* that logged an error returns nullptr / false / "success": false, a material
\* CreateMaterial returns has its color connected and is saved, and a game
\* mode CreateGameModeWithPawn reports created has its pawn and is the level's
\* default.
C1_FailedStepReturnsSentinel ==
    /\ LoggedError(call) => ReturnsFailure(call)
    /\ call.op = "CreateMaterial" /\ call.ret # NULL =>
         /\ MaterialById(materials, call.ret).connected
         /\ MaterialById(materials, call.ret).saved
    /\ call.op = GameModeOp /\ call.ret.success =>
         /\ \E b \in blueprints :
              /\ b.path = call.args.GameModePath
              /\ b.defaultPawn = GeneratedClassName(call.args.PawnBlueprintPath)
         /\ defaultGameMode = GeneratedClassName(call.args.GameModePath)

\* C2: a call that returns its failure sentinel leaves the host state (actors,
\* packages, materials, blueprints, default game mode) exactly as it was.
C2_FailureLeavesHostUnchanged ==
    [][ReturnsFailure(call') => UNCHANGED hostVars]_vars

LabelledAs(N) == { i \in 1..Len(actors) : actors[i].label = N }

NamedAs(N) == { i \in 1..Len(actors) : actors[i].name = N }

\* what FindActorByName(N) must have returned in the state it ran in
FindActorByNameResult ==
    LET N == call.args.ActorName
    IN  /\ hasWorld /\ LabelledAs(N) # {} =>
             \E i \in LabelledAs(N) :
                 /\ \A j \in LabelledAs(N) : i <= j
                 /\ call.ret = actors[i].name
        /\ hasWorld /\ LabelledAs(N) = {} /\ NamedAs(N) # {} => call.ret = N
        /\ call.ret = NULL <=> (~hasWorld \/ (LabelledAs(N) = {} /\ NamedAs(N) = {}))

\* C3: FindActorByName(N) returns the first actor labelled N, else the actor
\* whose path is N, and nullptr exactly when there is no world or neither
\* matches; it changes nothing.
C3_FindActorByName ==
    [][call'.op = "FindActorByName" =>
           FindActorByNameResult' /\ UNCHANGED hostVars]_vars

\* a label match wins over another actor's path match
C3_Witness ==
    /\ call.op = "FindActorByName"
    /\ \E i, j \in 1..Len(actors) :
          /\ i # j
          /\ actors[i].label = call.args.ActorName
          /\ actors[j].name = call.args.ActorName
          /\ actors[j].label # call.args.ActorName
          /\ call.ret = actors[i].name

\* the actor a with the one transform component the operation addresses set to v
WithTransform(op, a, v) ==
    CASE op = "SetActorPosition" -> [a EXCEPT !.loc = v]
      [] op = "SetActorRotation" -> [a EXCEPT !.rot = v]
      [] op = "SetActorScale" -> [a EXCEPT !.scale = v]

\* C4: a transform setter returns true iff FindActorByName finds an actor; on
\* true only that actor changes and only in the addressed component, which
\* becomes the argument; on false nothing changes.
C4_SetTransform ==
    [][call'.op \in TransformOps =>
         LET i == FindActorIndex(hasWorld, actors, call'.args.ActorName)
         IN  /\ call'.ret = (i # 0)
             /\ Len(actors') = Len(actors)
             /\ \A j \in 1..Len(actors) :
                   actors'[j] = IF j = i
                                  THEN WithTransform(call'.op, actors[j], call'.args.Value)
                                  ELSE actors[j]
             /\ UnchangedButActors]_vars

\* two actors carry the label; the first moved, the second did not, and the
\* first kept a rotation and a scale set before
C4_Witness ==
    /\ call.op = "SetActorPosition"
    /\ call.ret = TRUE
    /\ Len(actors) >= 2
    /\ actors[1].label = call.args.ActorName
    /\ actors[2].label = call.args.ActorName
    /\ actors[1].loc = call.args.Value
    /\ actors[2].loc # call.args.Value
    /\ actors[1].rot = <<0, 90, 0>>
    /\ actors[1].scale = <<2, 2, 3>>

\* the materials that load from a path
LoadedFrom(path) == { m.id : m \in { x \in materials : x.pkg = path.pkg /\ x.name = path.obj } }

\* the result and effect of assigning Material to the actor ActorName
MaterialAssigned(ActorName, Material) ==
    LET i == FindActorIndex(hasWorld, actors, ActorName)
        refused == IF Material = NULL \/ i = 0 THEN TRUE ELSE ~actors[i].comp
    IN  IF refused
          THEN call'.ret = FALSE /\ UNCHANGED hostVars
          ELSE /\ call'.ret = TRUE
               /\ Len(actors') = Len(actors)
               /\ \A j \in 1..Len(actors) :
                     actors'[j] =
                       IF j = i
                         THEN [actors[j] EXCEPT !.mats =
                                 [k \in 1..NumMaterialSlots(actors[j].mesh) |-> Material]]
                         ELSE actors[j]
               /\ UnchangedButActors

\* C5: SetActorMaterial returns false and changes nothing for a null
\* material, an unknown actor or an actor without static mesh component;
\* otherwise it returns true and every slot of that actor's component holds
\* the material, nothing else changing.  SetActorMaterialByPath returns false
\* without an actor lookup when nothing loads from the path, and otherwise
\* behaves as SetActorMaterial with the loaded material.
C5_SetActorMaterial ==
    [][/\ call'.op = "SetActorMaterial" =>
            MaterialAssigned(call'.args.ActorName, call'.args.Material)
       /\ call'.op = "SetActorMaterialByPath" =>
            IF LoadedFrom(call'.args.MaterialPath) = {}
              THEN /\ call'.ret = FALSE
                   /\ call'.log = Error("Failed to load material at path")
                   /\ UNCHANGED hostVars
              ELSE \E Material \in LoadedFrom(call'.args.MaterialPath) :
                      MaterialAssigned(call'.args.ActorName, Material)]_vars

\* a two-slot actor got the loaded material in both slots while another
\* two-slot actor kept its own
C5_Witness ==
    /\ call.op = "SetActorMaterialByPath"
    /\ call.ret = TRUE
    /\ \E i, j \in 1..Len(actors) :
          /\ i # j
          /\ actors[i].label = call.args.ActorName
          /\ actors[i].mats = <<"Material_1", "Material_1">>
          /\ actors[j].mats = <<"Material_0", "Material_0">>

\* the mesh a successful spawn call must have put on the actor
SpawnedMesh(c) ==
    CASE c.op = "SpawnBasicShape" ->
           "/Engine/BasicShapes/" \o c.args.what \o "." \o c.args.what
      [] c.op = "SpawnStaticMeshActor" -> ObjectName(c.args.what)
      [] c.op = "SpawnActorFromClass" -> NULL

\* C6: a spawn call that returns an actor adds exactly that one actor and
\* changes no other; the new actor has the requested location, rotation and
\* scale, the loaded mesh, and the label ActorLabel, or the host's default
\* label when ActorLabel is empty.
C6_SpawnAddsOneActor ==
    [][call'.op \in SpawnOps /\ call'.ret # NULL =>
         LET new == actors'[Len(actors')]
         IN  /\ Len(actors') = Len(actors) + 1
             /\ SubSeq(actors', 1, Len(actors)) = actors
             /\ new.name = call'.ret
             /\ \A i \in 1..Len(actors) : actors[i].name # new.name
             /\ new.loc = call'.args.Location
             /\ new.rot = call'.args.Rotation
             /\ new.scale = call'.args.Scale
             /\ new.mesh = SpawnedMesh(call')
             /\ new.label = IF call'.args.ActorLabel # ""
                              THEN call'.args.ActorLabel
                              ELSE DefaultActorLabel(new.name)
             /\ UnchangedButActors]_vars

\* a second actor was spawned as a basic shape, placed and scaled, without label
C6_Witness ==
    /\ call.op = "SpawnBasicShape"
    /\ call.ret # NULL
    /\ call.args.ActorLabel = ""
    /\ call.args.Scale = <<2, 2, 3>>
    /\ Len(actors) = 2
    /\ actors[2].name = call.ret
    /\ actors[2].mesh = "/Engine/BasicShapes/Cube.Cube"

\* the error of the first of the four checks that fails, "" when all pass
FirstFailingCheck(bps, a) ==
    LET base == IF a.BaseClassName = "" THEN "GameModeBase" ELSE a.BaseClassName
    IN  IF a.GameModePath = <<>> \/ a.PawnBlueprintPath = <<>>
          THEN "Empty path provided"
        ELSE IF \E b \in bps : b.path = a.GameModePath
          THEN "Game mode already exists"
        ELSE IF ~(FindClass(bps, base) # NULL /\ IsChildOf(bps, base, "GameModeBase"))
          THEN "Invalid base class"
        ELSE IF ~(\E b \in bps : /\ b.path = a.PawnBlueprintPath
                                 /\ b.gen
                                 /\ IsChildOf(bps, GeneratedClassName(b.path), "Pawn"))
          THEN "Invalid pawn blueprint"
        ELSE ""

GuardErrors == {"Empty path provided", "Game mode already exists",
                "Invalid base class", "Invalid pawn blueprint"}

\* C7: CreateGameModeWithPawn returns the error of the first failing check in
\* the order empty path, game mode exists, base class, pawn blueprint; when a
\* check fails no asset is created and the default game mode is unchanged; the
\* asset is created only when all four pass.
C7_GuardOrder ==
    [][call'.op = GameModeOp =>
         LET e == FirstFailingCheck(blueprints, call'.args)
         IN  /\ e # "" => /\ call'.ret = Json(FALSE, e)
                          /\ blueprints' = blueprints
                          /\ defaultGameMode' = defaultGameMode
             /\ e = "" => call'.ret.text \notin GuardErrors
             /\ blueprints' # blueprints => e = ""]_vars

\* three checks fail at once and the first one is reported
C7_Witness ==
    /\ call.op = GameModeOp
    /\ call.ret = Json(FALSE, "Game mode already exists")
    /\ call.args.BaseClassName = "Bogus"
    /\ call.args.PawnBlueprintPath = <<"Game", "BP_Gone">>

\* C8: when CreateGameModeWithPawn returns "success": true, a game mode
\* exists at GameModePath with the validated base class as parent and the
\* pawn blueprint's generated class as default pawn, and it is the level's
\* default game mode -- also without world or level, and when the default
\* object is no game mode.
C8_SuccessMeansConfigured ==
    call.op = GameModeOp /\ call.ret.success =>
        /\ \E b \in blueprints :
             /\ b.path = call.args.GameModePath
             /\ b.parent = (IF call.args.BaseClassName = "" THEN "GameModeBase"
                            ELSE call.args.BaseClassName)
             /\ b.defaultPawn = GeneratedClassName(call.args.PawnBlueprintPath)
        /\ defaultGameMode = GeneratedClassName(call.args.GameModePath)

MaterialsNamed(ms, N) == { m \in ms : m.pkg = MaterialPackagePath(N) /\ m.name = N }

\* C9: CreateMaterial(N, C) returns an existing material N unchanged and
\* changes nothing; a material it creates and returns has color C, so that a
\* later CreateMaterial(N, C2) returns the same material with the first color;
\* there is never more than one material named N.
C9_CreateMaterialIdempotent ==
    [][call'.op = "CreateMaterial" =>
         LET N == call'.args.MaterialName
         IN  /\ MaterialsNamed(materials, N) # {} /\ MaterialPackagePath(N) \in packages =>
                   /\ call'.ret \in { m.id : m \in MaterialsNamed(materials, N) }
                   /\ UNCHANGED hostVars
             /\ MaterialsNamed(materials, N) = {} /\ call'.ret # NULL =>
                   \E m \in MaterialsNamed(materials', N) :
                       m.id = call'.ret /\ m.color = call'.args.Color
             /\ Cardinality(MaterialsNamed(materials', N)) <= 1]_vars

\* C10: once a blueprint exists at P, CreateGameModeWithPawn(P, ...) with
\* non-empty paths returns "Game mode already exists" and changes neither the
\* assets nor the default game mode; no call changes or removes an existing
\* blueprint, and no path ever holds two.
C10_ExistingGameModeKept ==
    [][call'.op = GameModeOp =>
         /\ (/\ \E b \in blueprints : b.path = call'.args.GameModePath
             /\ call'.args.PawnBlueprintPath # <<>>) =>
               /\ call'.ret = Json(FALSE, "Game mode already exists")
               /\ blueprints' = blueprints
               /\ defaultGameMode' = defaultGameMode
         /\ blueprints \subseteq blueprints'
         /\ \A a, b \in blueprints' : a.path = b.path => a = b]_vars

\* a game mode this module created, whose pawn is still the host's default,
\* is asked for again with a valid pawn and base class
C10_Witness ==
    /\ call.op = GameModeOp
    /\ call.ret = Json(FALSE, "Game mode already exists")
    /\ call.args.PawnBlueprintPath = <<"Game", "BP_Pawn">>
    /\ call.args.BaseClassName = ""
    /\ \E b \in blueprints \ InitBlueprints :
          /\ b.path = call.args.GameModePath
          /\ b.defaultPawn = "DefaultPawn"

====
